---- MODULE Spec2Model ----
(***************************************************************************)
(* State-machine model of snippets/blossom_algo.py: max_matching(adj),     *)
(* Edmonds' blossom algorithm with the closures lca, mark_path and         *)
(* find_path.  Every loop iteration of the source is one step, so that a   *)
(* loop which never reaches its exit condition is a cycle of the state     *)
(* graph.  Python list indexing is kept: index -1 addresses the last       *)
(* element.                                                                *)
(***************************************************************************)
EXTENDS Integers, Sequences, FiniteSets, TLC

VARIABLES adj, n, order,
          match, p, base, q, used, blossom,
          res, k, root, v, j,
          a, b, used_path, curbase, mv, mx, curr,
          pc, ret, match0, negidx,
          mode, ref, retMatch, retSize,
          pmark, viaMark, bcleared, deq

\* adj, n             the argument and its length
\* order              the order in which the driver takes the candidate roots
\*                    (the index order in the source)
\* match .. blossom   the lists and the deque of max_matching
\* res, k             the counter and the index of the driver loop
\* root, v, j         find_path: its argument, the dequeued vertex, the position
\*                    of the for loop in adj[v]
\* a, b, used_path    the locals of lca;  mv, mx  the locals v, x of mark_path
\* curbase, curr      locals of find_path
\* pc                 the statement control is at
\* history only, read by no step of the program:
\* ret                the result of the last find_path call ("none" while it runs)
\* match0             match as it was when the last find_path call started
\* negidx             some list was indexed with -1
\* pmark              the vertices whose parent entry was last written by mark_path
\* viaMark            a flip walk has read a parent entry written by mark_path
\* bcleared           the marker list was cleared (line 64) during the current
\*                    find_path call
\* deq                the vertices popped from the queue during the current
\*                    find_path call, in order
\* mode               "run": a call of max_matching; "verify": the driver loop
\*                    run again on the returned matching
\* ref                the size the index-order call returned (-1 during that call)
\* retMatch, retSize  the result that the second pass started from
graphVars == <<adj, n>>
searchVars == <<p, base, q, used, blossom>>
lcaVars == <<a, b, used_path>>
markVars == <<mv, mx>>
histVars == <<ref, retMatch, retSize>>
ghostVars == <<pmark, viaMark, bcleared, deq>>
vars == <<adj, n, order, match, p, base, q, used, blossom, res, k, root, v, j,
          a, b, used_path, curbase, mv, mx, curr, pc, ret, match0, negidx,
          mode, ref, retMatch, retSize, pmark, viaMark, bcleared, deq>>

(* ---------------------------- bounds ----------------------------------- *)
\* the largest number of vertices of an enumerated graph
MaxN == 5

\* the largest number of vertices of a graph whose root orders are enumerated
MaxPermN == 4

(* ---------------------------- inputs ----------------------------------- *)
Vertices(m) == 0 .. (m - 1)

AllEdges(m) == {e \in SUBSET Vertices(m) : Cardinality(e) = 2}

RECURSIVE NbrsAsc(_, _, _, _)
NbrsAsc(E, m, x, i) ==
  IF i >= m THEN <<>>
  ELSE (IF i # x /\ {x, i} \in E THEN <<i>> ELSE <<>>) \o NbrsAsc(E, m, x, i + 1)

Reverse(s) == [i \in 1 .. Len(s) |-> s[Len(s) + 1 - i]]

AdjAsc(E, m) == [x \in Vertices(m) |-> NbrsAsc(E, m, x, 0)]
AdjDesc(E, m) == [x \in Vertices(m) |-> Reverse(NbrsAsc(E, m, x, 0))]

Cycle5Edges == {{0, 1}, {1, 2}, {2, 3}, {3, 4}, {4, 0}}

\* the adjacency lists the demo builds by appending both ends of each edge
Cycle5Demo == (0 :> <<1, 4>>) @@ (1 :> <<0, 2>>) @@ (2 :> <<1, 3>>)
              @@ (3 :> <<2, 4>>) @@ (4 :> <<3, 0>>)

Cycle5Adjs == {AdjAsc(Cycle5Edges, 5), AdjDesc(Cycle5Edges, 5), Cycle5Demo}

\* two disjoint triangles 0-1-2 and 3-4-5 joined by the bridge x-y
BridgeEdges(x, y) == {{0, 1}, {1, 2}, {0, 2}, {3, 4}, {4, 5}, {3, 5}, {x, y}}

\* every choice of the bridge ends, one in each triangle
TwoTriangleEdgeSets == {BridgeEdges(x, y) : x \in 0 .. 2, y \in 3 .. 5}

TwoTriangleAdjs ==
  UNION {{AdjAsc(E, 6), AdjDesc(E, 6)} : E \in TwoTriangleEdgeSets}

\* a triangle 1-2-3 hanging off the stem 6-0-1, closed by the second
\* branch 6-4-5-3: the search from 6 folds the triangle into a larger blossom
NestedEdges ==
  {{0, 1}, {0, 6}, {1, 2}, {1, 3}, {2, 3}, {3, 5}, {4, 5}, {4, 6}}

NestedAdjs == {AdjAsc(NestedEdges, 7), AdjDesc(NestedEdges, 7)}

\* the named graphs, checked in addition to every graph of at most MaxN vertices
NamedAdjs == Cycle5Adjs \cup TwoTriangleAdjs \cup NestedAdjs

Len0(f) == Cardinality(DOMAIN f)

NbrSet(g, x) == {g[x][i] : i \in 1 .. Len(g[x])}

EdgesOf(g) == {e \in AllEdges(Len0(g)) : \E x \in e : \E y \in e : x # y /\ y \in NbrSet(g, x)}

WellFormed(g) ==
  \A x \in DOMAIN g :
    /\ NbrSet(g, x) \subseteq DOMAIN g
    /\ x \notin NbrSet(g, x)
    /\ \A y \in NbrSet(g, x) : x \in NbrSet(g, y)

Identity(m) == [i \in Vertices(m) |-> i]

RootOrders(m) == {f \in [Vertices(m) -> Vertices(m)] : \A x, y \in Vertices(m) : f[x] = f[y] => x = y}

(* ------------------------ Python list indexing ------------------------- *)
Py(i) == IF i < 0 THEN n + i ELSE i

(* ------------------------ construction --------------------------------- *)
NoMatch(m) == [i \in Vertices(m) |-> -1]
AllFalse(m) == [i \in Vertices(m) |-> FALSE]

Fresh(g, ord) ==
  /\ adj = g
  /\ n = Len0(g)
  /\ order = ord
  /\ match = NoMatch(Len0(g))
  /\ p = NoMatch(Len0(g))
  /\ base = Identity(Len0(g))
  /\ q = <<>>
  /\ used = AllFalse(Len0(g))
  /\ blossom = AllFalse(Len0(g))
  /\ res = 0
  /\ k = 0
  /\ root = -1 /\ v = -1 /\ j = 0
  /\ a = -1 /\ b = -1 /\ used_path = AllFalse(Len0(g))
  /\ curbase = -1 /\ mv = -1 /\ mx = -1 /\ curr = -1
  /\ pc = "driver"
  /\ ret = "none"
  /\ match0 = NoMatch(Len0(g))
  /\ negidx = FALSE
  /\ mode = "run"
  /\ ref = -1
  /\ retMatch = NoMatch(Len0(g))
  /\ retSize = 0
  /\ pmark = {}
  /\ viaMark = FALSE
  /\ bcleared = FALSE
  /\ deq = <<>>

\* max_matching is called on any graph of at most MaxN vertices, its adjacency
\* lists ascending or descending, or on a named graph
Init ==
  \/ \E m \in 0 .. MaxN : \E E \in SUBSET AllEdges(m) :
       \E g \in {AdjAsc(E, m), AdjDesc(E, m)} : Fresh(g, Identity(m))
  \/ \E g \in NamedAdjs : Fresh(g, Identity(Len0(g)))

(* ------------------------ max_matching: driver ------------------------- *)
\* the candidate root of the k-th iteration of "for v in range(n)"
RootAt(i) == order[i]


\* mutant: a successful search is not counted
CountedNot(r) == r

Counted(r) == r + 1

\* line 95 false: the vertex is already matched, next iteration
DriverSkip ==
  /\ pc = "driver" /\ k < n
  /\ match[RootAt(k)] # -1
  /\ k' = k + 1
  /\ UNCHANGED <<graphVars, order, match, searchVars, res, root, v, j, lcaVars,
                 curbase, markVars, curr, pc, ret, match0, negidx, mode, histVars, ghostVars>>

\* the reset of find_path: used, p, base, q; blossom is left as it is
ResetUsed(r) == [i \in Vertices(n) |-> i = r]


\* mutant: the parents of the previous search are kept
ResetParentStale == p

ResetParent == [i \in Vertices(n) |-> -1]

ResetBase == [i \in Vertices(n) |-> i]

\* mutant: the root is marked but never enqueued
ResetQueueEmpty(r) == <<>>

ResetQueue(r) == <<r>>

\* lines 95-96 and 46-53: call find_path(v) for an unmatched v
CallFindPath ==
  /\ pc = "driver" /\ k < n
  /\ match[RootAt(k)] = -1
  /\ root' = RootAt(k)
  /\ used' = ResetUsed(RootAt(k))
  /\ p' = ResetParent
  /\ base' = ResetBase
  /\ q' = ResetQueue(RootAt(k))
  /\ match0' = match
  /\ ret' = "none"
  /\ pmark' = {}
  /\ bcleared' = FALSE
  /\ deq' = <<>>
  /\ pc' = "bfs"
  /\ UNCHANGED <<graphVars, order, match, blossom, res, k, v, j, lcaVars, curbase,
                 markVars, curr, negidx, mode, histVars, viaMark>>

\* line 99: return match, res
DriverReturn ==
  /\ pc = "driver" /\ k = n
  /\ pc' = IF mode = "run" THEN "returned" ELSE "verified"
  /\ UNCHANGED <<graphVars, order, match, searchVars, res, k, root, v, j, lcaVars,
                 curbase, markVars, curr, ret, match0, negidx, mode, histVars, ghostVars>>

(* ------------------------ find_path: BFS ------------------------------- *)
\* line 55 false, line 90: return False; line 96 false
FindPathFail ==
  /\ pc = "bfs" /\ q = <<>>
  /\ ret' = "false"
  /\ k' = k + 1
  /\ pc' = "driver"
  /\ UNCHANGED <<graphVars, order, match, searchVars, res, root, v, j, lcaVars,
                 curbase, markVars, curr, match0, negidx, mode, histVars, ghostVars>>

\* line 56: v = q.popleft()
Dequeue ==
  /\ pc = "bfs" /\ q # <<>>
  /\ v' = Head(q)
  /\ q' = Tail(q)
  /\ deq' = Append(deq, Head(q))
  /\ j' = 1
  /\ pc' = "nbr"
  /\ UNCHANGED <<graphVars, order, match, p, base, used, blossom, res, k, root,
                 lcaVars, curbase, markVars, curr, ret, match0, negidx, mode, histVars,
                 pmark, viaMark, bcleared>>

\* line 57: the neighbour the for loop is at
u == adj[v][j]

HasNbr == pc = "nbr" /\ j <= Len(adj[v])

\* line 57 exhausted: back to "while q"
NbrDone ==
  /\ pc = "nbr" /\ j > Len(adj[v])
  /\ pc' = "bfs"
  /\ UNCHANGED <<graphVars, order, match, searchVars, res, k, root, v, j, lcaVars,
                 curbase, markVars, curr, ret, match0, negidx, mode, histVars, ghostVars>>


\* line 59
SkipCond == base[v] = base[u] \/ match[v] = u


\* line 62
BlossomCond == u = root \/ (match[u] # -1 /\ p[match[u]] # -1)


\* line 75
ExtendCond == p[u] = -1

\* line 60: continue
Skip ==
  /\ HasNbr /\ SkipCond
  /\ j' = j + 1
  /\ UNCHANGED <<graphVars, order, match, searchVars, res, k, root, v, lcaVars,
                 curbase, markVars, curr, pc, ret, match0, negidx, mode, histVars, ghostVars>>

\* neither line 62 nor line 75 holds: nothing to do for this neighbour
NoCase ==
  /\ HasNbr /\ ~SkipCond /\ ~BlossomCond /\ ~ExtendCond
  /\ j' = j + 1
  /\ UNCHANGED <<graphVars, order, match, searchVars, res, k, root, v, lcaVars,
                 curbase, markVars, curr, pc, ret, match0, negidx, mode, histVars, ghostVars>>

\* lines 62-63, 22: enter lca(v, u)
BlossomFound ==
  /\ HasNbr /\ ~SkipCond /\ BlossomCond
  /\ a' = v /\ b' = u
  /\ used_path' = [i \in Vertices(n) |-> FALSE]
  /\ pc' = "lca1"
  /\ UNCHANGED <<graphVars, order, match, searchVars, res, k, root, v, j, curbase,
                 markVars, curr, ret, match0, negidx, mode, histVars, ghostVars>>


\* mutant: the partner of u is marked but never enqueued
GrownNot(qq, x) == qq

\* line 89
Grown(qq, x) == Append(qq, match[x])

\* mutant: tree extension already rematches u to v
ExtendEager ==
  /\ HasNbr /\ ~SkipCond /\ ~BlossomCond /\ ExtendCond
  /\ match[u] # -1
  /\ p' = [p EXCEPT ![u] = v]
  /\ pmark' = pmark \ {u}
  /\ match' = [match EXCEPT ![u] = v]
  /\ used' = [used EXCEPT ![match[u]] = TRUE]
  /\ q' = Grown(q, u)
  /\ j' = j + 1
  /\ UNCHANGED <<graphVars, order, base, blossom, res, k, root, v, lcaVars,
                 curbase, markVars, curr, pc, ret, match0, negidx, mode, histVars, viaMark, bcleared, deq>>

\* lines 76, 88-89: u is matched, the tree grows by u and its partner
Extend ==
  /\ HasNbr /\ ~SkipCond /\ ~BlossomCond /\ ExtendCond
  /\ match[u] # -1
  /\ p' = [p EXCEPT ![u] = v]
  /\ pmark' = pmark \ {u}
  /\ used' = [used EXCEPT ![match[u]] = TRUE]
  /\ q' = Grown(q, u)
  /\ j' = j + 1
  /\ UNCHANGED <<graphVars, order, match, base, blossom, res, k, root, v, lcaVars,
                 curbase, markVars, curr, pc, ret, match0, negidx, mode, histVars, viaMark, bcleared, deq>>

\* lines 76-79: u is unmatched, an augmenting path ends in u
Augment ==
  /\ HasNbr /\ ~SkipCond /\ ~BlossomCond /\ ExtendCond
  /\ match[u] = -1
  /\ p' = [p EXCEPT ![u] = v]
  /\ pmark' = pmark \ {u}
  /\ curr' = u
  /\ pc' = "flip"
  /\ UNCHANGED <<graphVars, order, match, base, q, used, blossom, res, k, root, v, j,
                 lcaVars, curbase, markVars, ret, match0, negidx, mode, histVars, viaMark, bcleared, deq>>

(* ------------------------ lca ------------------------------------------ *)

\* mutant: the walk steps to the partner and forgets the partner's parent
UpNoParent(x) == match[x]

\* lines 28 and 33: from a base to the tree parent of its partner
Up(x) == p[Py(match[x])]

\* lines 24-28: one iteration of the first walk
Lca1Step ==
  /\ pc = "lca1"
  /\ LET a1 == base[Py(a)] IN
       /\ used_path' = [used_path EXCEPT ![a1] = TRUE]
       /\ IF match[a1] = -1
            THEN a' = a1 /\ pc' = "lca2" /\ negidx' = (negidx \/ a = -1)
            ELSE a' = Up(a1) /\ pc' = "lca1" /\ negidx' = (negidx \/ a = -1)
  /\ UNCHANGED <<graphVars, order, match, searchVars, res, k, root, v, j, b, curbase,
                 markVars, curr, ret, match0, mode, histVars, ghostVars>>

\* lines 30, 31 false, 33: one iteration of the second walk
Lca2Step ==
  /\ pc = "lca2"
  /\ ~used_path[base[Py(b)]]
  /\ b' = Up(base[Py(b)])
  /\ negidx' = (negidx \/ b = -1 \/ match[base[Py(b)]] = -1)
  /\ UNCHANGED <<graphVars, order, match, searchVars, res, k, root, v, j, a, used_path,
                 curbase, markVars, curr, pc, ret, match0, mode, histVars, ghostVars>>

\* lines 30-32, 63-65: lca returns b; the marker is cleared; enter mark_path(v, curbase, u)
Lca2Return ==
  /\ pc = "lca2"
  /\ used_path[base[Py(b)]]
  /\ b' = base[Py(b)]
  /\ curbase' = base[Py(b)]
  /\ blossom' = [i \in Vertices(n) |-> FALSE]
  /\ bcleared' = TRUE
  /\ mv' = v /\ mx' = u
  /\ pc' = "mark1"
  /\ negidx' = (negidx \/ b = -1)
  /\ UNCHANGED <<graphVars, order, match, p, base, q, used, res, k, root, v, j, a,
                 used_path, curr, ret, match0, mode, histVars, pmark, viaMark, deq>>

(* ------------------------ mark_path ------------------------------------ *)
InMark == pc \in {"mark1", "mark2"}

\* line 38
Marked(bl, x) == [bl EXCEPT ![base[Py(x)]] = TRUE, ![base[Py(match[Py(x)])]] = TRUE]



\* mutant: the roles of the two arguments are exchanged
ReparentSwapped(par, x, y) == [par EXCEPT ![Py(y)] = x]

\* line 39
Reparent(par, x, y) == [par EXCEPT ![Py(x)] = y]

\* lines 37-41: one iteration of the walk
MarkStep ==
  /\ InMark
  /\ base[Py(mv)] # curbase
  /\ blossom' = Marked(blossom, mv)
  /\ p' = Reparent(p, mv, mx)
  /\ pmark' = pmark \cup {Py(mv)}
  /\ mx' = match[Py(mv)]
  /\ mv' = Reparent(p, mv, mx)[Py(match[Py(mv)])]
  /\ negidx' = (negidx \/ mv = -1 \/ match[Py(mv)] = -1)
  /\ UNCHANGED <<graphVars, order, match, base, q, used, res, k, root, v, j, lcaVars,
                 curbase, curr, pc, ret, match0, mode, histVars, viaMark, bcleared, deq>>

\* line 37 false in the first call, line 66: enter mark_path(u, curbase, v)
MarkNext ==
  /\ pc = "mark1"
  /\ base[Py(mv)] = curbase
  /\ mv' = u /\ mx' = v
  /\ pc' = "mark2"
  /\ negidx' = (negidx \/ mv = -1)
  /\ UNCHANGED <<graphVars, order, match, searchVars, res, k, root, v, j, lcaVars,
                 curbase, curr, ret, match0, mode, histVars, ghostVars>>

\* line 37 false in the second call
MarkDone ==
  /\ pc = "mark2"
  /\ base[Py(mv)] = curbase
  /\ pc' = "contract"
  /\ negidx' = (negidx \/ mv = -1)
  /\ UNCHANGED <<graphVars, order, match, searchVars, res, k, root, v, j, lcaVars,
                 curbase, markVars, curr, ret, match0, mode, histVars, ghostVars>>

(* ------------------------ blossom contraction -------------------------- *)

\* mutant: the marker is read at the vertex, not at its base
InBlossomSelf(i) == blossom[i]

\* line 69
InBlossom(i) == blossom[base[i]]


\* mutant: the contraction takes every vertex into the blossom
ContractedBaseAll(i) == curbase

\* lines 69-70
ContractedBase(i) == IF InBlossom(i) THEN curbase ELSE base[i]


\* mutant: the contraction does not mark the folded vertices visited
ContractedUsedKept(i) == used[i]

\* lines 71-72
ContractedUsed(i) == used[i] \/ InBlossom(i)


\* line 73, for i ascending
RECURSIVE Enqueued(_)

\* mutant: the contraction enqueues a folded vertex without testing used
EnqueuedAll(i) ==
  IF i >= n THEN <<>>
  ELSE (IF InBlossom(i) THEN <<i>> ELSE <<>>) \o Enqueued(i + 1)

Enqueued(i) ==
  IF i >= n THEN <<>>
  ELSE (IF InBlossom(i) /\ ~used[i] THEN <<i>> ELSE <<>>) \o Enqueued(i + 1)

\* lines 68-73: the whole for loop, then the next neighbour
Contract ==
  /\ pc = "contract"
  /\ base' = [i \in Vertices(n) |-> ContractedBase(i)]
  /\ used' = [i \in Vertices(n) |-> ContractedUsed(i)]
  /\ q' = q \o Enqueued(0)
  /\ j' = j + 1
  /\ pc' = "nbr"
  /\ UNCHANGED <<graphVars, order, match, p, blossom, res, k, root, v, lcaVars, curbase,
                 markVars, curr, ret, match0, negidx, mode, histVars, ghostVars>>

(* ------------------------ augmenting-path flip ------------------------- *)
\* line 81
Prev(c) == p[c]


\* mutant: the flip stops after the first edge
NxtStop(c) == -1

\* line 82
Nxt(c) == IF Prev(c) # -1 THEN match[Prev(c)] ELSE -1


\* mutant: only one side of the pair is written
FlippedOneWay(c) == [match EXCEPT ![c] = Prev(c)]

\* lines 83-84, in this order
Flipped(c) == [[match EXCEPT ![c] = Prev(c)] EXCEPT ![Py(Prev(c))] = c]

\* lines 80-85: one iteration of the flip walk
FlipStep ==
  /\ pc = "flip" /\ curr # -1
  /\ match' = Flipped(curr)
  /\ curr' = Nxt(curr)
  /\ viaMark' = (viaMark \/ curr \in pmark)
  /\ negidx' = (negidx \/ Prev(curr) = -1)
  /\ UNCHANGED <<graphVars, order, searchVars, res, k, root, v, j, lcaVars, curbase,
                 markVars, pc, ret, match0, mode, histVars, pmark, bcleared, deq>>

\* line 80 false, line 86: return True; line 97: res += 1
FlipDone ==
  /\ pc = "flip" /\ curr = -1
  /\ ret' = "true"
  /\ res' = Counted(res)
  /\ k' = k + 1
  /\ pc' = "driver"
  /\ UNCHANGED <<graphVars, order, match, searchVars, root, v, j, lcaVars, curbase,
                 markVars, curr, match0, negidx, mode, histVars, ghostVars>>

(* ------------------------ callers -------------------------------------- *)
\* the driver loop run once more on the returned matching
Rerun ==
  /\ pc = "returned"
  /\ mode' = "verify"
  /\ retMatch' = match
  /\ retSize' = res
  /\ k' = 0
  /\ pc' = "driver"
  /\ UNCHANGED <<graphVars, order, match, searchVars, res, root, v, j, lcaVars, curbase,
                 markVars, curr, ret, match0, negidx, ref, ghostVars>>

PermInput == n <= MaxPermN \/ adj \in Cycle5Adjs

\* max_matching called again on the same graph, the roots taken in another order
RunPermuted ==
  /\ pc = "returned" /\ ref = -1 /\ PermInput
  /\ \E ord \in RootOrders(n) \ {Identity(n)} :
       /\ order' = ord
       /\ ref' = res
       /\ match' = NoMatch(n) /\ p' = NoMatch(n) /\ base' = Identity(n)
       /\ q' = <<>> /\ used' = AllFalse(n) /\ blossom' = AllFalse(n)
       /\ res' = 0 /\ k' = 0
       /\ root' = -1 /\ v' = -1 /\ j' = 0
       /\ a' = -1 /\ b' = -1 /\ used_path' = AllFalse(n)
       /\ curbase' = -1 /\ mv' = -1 /\ mx' = -1 /\ curr' = -1
       /\ pc' = "driver" /\ ret' = "none" /\ match0' = NoMatch(n)
       /\ negidx' = FALSE
       /\ pmark' = {} /\ viaMark' = FALSE /\ bcleared' = FALSE
       /\ deq' = <<>>
  /\ UNCHANGED <<graphVars, mode, retMatch, retSize>>

\* the steps of one call of max_matching
NextRun ==
  \/ DriverSkip \/ CallFindPath \/ DriverReturn
  \/ FindPathFail \/ Dequeue \/ NbrDone
  \/ Skip \/ NoCase \/ BlossomFound \/ Extend \/ Augment
  \/ Lca1Step \/ Lca2Step \/ Lca2Return
  \/ MarkStep \/ MarkNext \/ MarkDone
  \/ Contract
  \/ FlipStep \/ FlipDone

Next == NextRun \/ Rerun

NextPerm == Next \/ RunPermuted

Spec == Init /\ [][Next]_vars

SpecPerm == Init /\ [][NextPerm]_vars

\* one call of max_matching; the program is sequential and never pauses
FairSpec == Init /\ [][NextRun]_vars /\ WF_vars(NextRun)

TypeOK ==
  /\ match \in [Vertices(n) -> -1 .. (n - 1)]
  /\ p \in [Vertices(n) -> -1 .. (n - 1)]
  /\ base \in [Vertices(n) -> Vertices(n)]
  /\ res \in 0 .. n

(* ======================== properties =================================== *)
Matched(m) == {x \in DOMAIN m : m[x] # -1}

Symmetric(m) == \A x \in DOMAIN m : m[x] # -1 => m[x] \in DOMAIN m /\ m[m[x]] = x

Max2(x, y) == IF x >= y THEN x ELSE y

\* the largest number of pairwise vertex-disjoint edges of an edge set
RECURSIVE Nu(_)
Nu(E) ==
  IF E = {} THEN 0
  ELSE LET e == CHOOSE f \in E : TRUE
       IN Max2(Nu(E \ {e}), 1 + Nu({f \in E : f \cap e = {}}))

MatchingNumber(g) == Nu(EdgesOf(g))

TriangleAdjs == {AdjAsc({{0, 1}, {1, 2}, {0, 2}}, 3), AdjDesc({{0, 1}, {1, 2}, {0, 2}}, 3)}

SingleEdge4 == (0 :> <<1>>) @@ (1 :> <<0>>) @@ (2 :> <<>>) @@ (3 :> <<>>)

\* C1: the size max_matching returns is the maximum matching number of the
\* graph (the largest number of pairwise vertex-disjoint edges); it is 2 for
\* the 5-cycle and 1 for the triangle.
C1_SizeIsMaximum ==
  pc = "returned" =>
    /\ WellFormed(adj)
    /\ res = MatchingNumber(adj)
    /\ (adj \in Cycle5Adjs => res = 2)
    /\ (adj \in TriangleAdjs => res = 1)

C1_Witness == pc = "returned" /\ adj = Cycle5Demo /\ res = 2 /\ curbase # -1

\* C2: after every completed find_path call and in the returned array, match
\* is symmetric (match[u] = v # -1 implies match[v] = u), so no vertex is the
\* match of two distinct vertices.
C2_MatchSymmetric ==
  pc \in {"driver", "returned"} =>
    /\ Symmetric(match)
    /\ \A x, y \in Matched(match) : x # y => match[x] # match[y]

C2_Witness ==
  /\ pc = "driver" /\ ret = "true"
  /\ \E x \in Matched(match0) : match[x] # match0[x]

\* C3: every matched pair of the returned array is an edge of the input
\* graph, also when the flip followed parent links written by mark_path.
C3_MatchedPairsAreEdges ==
  pc = "returned" => \A x \in Matched(match) : match[x] \in NbrSet(adj, x)

C3_Witness == pc = "returned" /\ viaMark /\ Matched(match) # {}

\* C4: after every iteration of the driver loop, and at the return, res is the
\* number of matched edges: twice res is the number of matched vertices.
C4_ResCountsMatchedEdges ==
  pc \in {"driver", "returned"} => 2 * res = Cardinality(Matched(match))

C4_Witness == pc = "driver" /\ 0 < k /\ k < n /\ res >= 2 /\ ret = "true"

\* C5: a find_path call that returns False leaves match as it was when the
\* call started, and match is written by no step other than the flip.
C5_FailedSearchKeepsMatch ==
  [][/\ (match' # match => pc = "flip" /\ pc' = "flip")
     /\ (ret' = "false" => match' = match0')]_vars

C5_Witness ==
  /\ pc = "driver" /\ ret = "false"
  /\ Matched(match) # {} /\ curbase # -1 /\ adj[root] # <<>>

\* C6: a find_path(root) call that returns True adds exactly two vertices to
\* the set of matched vertices, root and one other previously unmatched
\* vertex; every vertex matched before is still matched.
C6_AugmentAddsOneEdge ==
  (pc = "driver" /\ ret = "true") =>
    /\ root \notin Matched(match0)
    /\ Matched(match0) \subseteq Matched(match)
    /\ \E w \in Matched(match) \ Matched(match0) :
         /\ w # root
         /\ Matched(match) = Matched(match0) \cup {root, w}
    /\ Cardinality(Matched(match)) = Cardinality(Matched(match0)) + 2

C6_Witness ==
  /\ pc = "driver" /\ ret = "true"
  /\ \E x \in Matched(match0) : match[x] # match0[x] /\ match[x] # -1

\* C7: max_matching terminates: every run reaches the return statement, so
\* every find_path call on the way, with the walks of lca, mark_path and the
\* flip inside it, has come to its end.
C7_Terminates == <>(pc = "returned")

C7_Witness == pc = "returned" /\ curbase # -1 /\ viaMark /\ res >= 2

\* C8: the driver loop run again on the returned matching finds nothing: no
\* find_path call of the second pass reaches the flip, match stays the
\* returned array and res the returned size.
C8_RerunFindsNothing ==
  mode = "verify" => match = retMatch /\ res = retSize /\ pc # "flip"

C8_Witness ==
  /\ pc = "verified" /\ ret = "false" /\ retSize >= 1
  /\ \E x \in DOMAIN adj : match[x] = -1 /\ adj[x] # <<>>

\* C9: with the roots taken in any other order the size returned is the size
\* the index order returns.
C9_RootOrderKeepsSize == (pc = "returned" /\ ref # -1) => res = ref

C9_Witness ==
  /\ pc = "returned" /\ ref >= 2 /\ order # Identity(n)
  /\ curbase # -1 /\ 2 * res < n

\* C10: for the single edge 0-1 with the isolated vertices 2 and 3 the result
\* is match = [1, 0, -1, -1] and size 1.
C10_SingleEdge ==
  (pc = "returned" /\ adj = SingleEdge4) =>
    /\ match = (0 :> 1) @@ (1 :> 0) @@ (2 :> -1) @@ (3 :> -1)
    /\ res = 1

C10_Witness == pc = "returned" /\ adj = SingleEdge4 /\ ret = "false" /\ k = 4

\* C11: on two disjoint triangles joined by one bridge, for every choice of
\* the bridge ends, the result has size 3, matches all six vertices, is
\* symmetric and uses only edges of the graph.
C11_TwoTriangles ==
  (pc = "returned" /\ adj \in TwoTriangleAdjs) =>
    /\ res = 3
    /\ Matched(match) = 0 .. 5
    /\ Symmetric(match)
    /\ \A x \in 0 .. 5 : match[x] \in NbrSet(adj, x)

C11_Witness ==
  /\ pc = "returned" /\ adj \in TwoTriangleAdjs
  /\ curbase # -1 /\ viaMark /\ res = 3

\* the step that enters find_path
CallStep == pc = "driver" /\ pc' = "bfs"

\* the state right after the reset of find_path
AtCallStart == pc = "bfs" /\ ret = "none" /\ q = <<root>>

\* C12 as stated: at the start of every find_path call p is -1 everywhere,
\* base is the identity, used holds for root only, the queue holds root only
\* and the blossom marker is all false.
C12_Original ==
  [][CallStep =>
       /\ p' = [i \in Vertices(n) |-> -1]
       /\ base' = [i \in Vertices(n) |-> i]
       /\ used' = [i \in Vertices(n) |-> i = root']
       /\ q' = <<root'>>
       /\ blossom' = [i \in Vertices(n) |-> FALSE]]_vars

\* C12, amended: at the start of every find_path call p is -1 everywhere,
\* base is the identity, used holds for root only and the queue holds root
\* only; the blossom marker keeps the values of the previous search until it
\* is cleared at line 64, and it is written by mark_path and read by the
\* contraction only after it was cleared in the same call.
C12_ResetAtCall ==
  /\ [][CallStep =>
          /\ p' = [i \in Vertices(n) |-> -1]
          /\ base' = [i \in Vertices(n) |-> i]
          /\ used' = [i \in Vertices(n) |-> i = root']
          /\ q' = <<root'>>
          /\ blossom' = blossom]_vars
  /\ [](pc \in {"mark1", "mark2", "contract"} => bcleared)

C12_Witness ==
  /\ AtCallStart /\ k > 0 /\ curbase # -1
  /\ \E x \in Vertices(n) : blossom[x]
  /\ \A x \in Vertices(n) : p[x] = -1 /\ base[x] = x /\ used[x] = (x = root)

\* C13: the base mapping is never chained: at every point of every search
\* the base of a base is that base itself.
C13_BaseResolved == \A x \in Vertices(n) : base[base[x]] = base[x]

\* a contraction has folded a whole earlier blossom: y was its base and is
\* flagged, x hung under y without being a base, and both now sit on curbase
C13_Witness ==
  /\ pc = "nbr" /\ curbase # -1 /\ ret = "none"
  /\ \E x, y \in Vertices(n) :
        /\ x # y /\ y # curbase /\ blossom[y] /\ ~blossom[x] /\ p[x] = y
        /\ base[x] = curbase /\ base[y] = curbase

ContractStep == pc = "contract" /\ pc' = "nbr"

\* the vertices a step appends to the queue
Appended == {q'[i] : i \in (Len(q) + 1) .. Len(q')}

\* C14: a contraction moves every vertex whose base is flagged onto the
\* computed LCA and marks it visited, enqueuing it if it was not visited
\* before; every other vertex keeps its base and its visited flag; hence a
\* vertex whose base is another vertex is always visited.
C14_Contraction ==
  /\ [][ContractStep =>
          /\ Len(q') >= Len(q) /\ SubSeq(q', 1, Len(q)) = q
          /\ \A x \in Vertices(n) :
               IF blossom[base[x]]
                 THEN /\ base'[x] = curbase
                      /\ used'[x]
                      /\ (x \in Appended <=> ~used[x])
                 ELSE /\ base'[x] = base[x]
                      /\ used'[x] = used[x]
                      /\ x \notin Appended]_vars
  /\ [](\A x \in Vertices(n) : base[x] # x => used[x])

\* right after a contraction: the last queue entry is a flagged vertex that
\* was folded onto curbase, and some vertex outside the blossom kept its base
C14_Witness ==
  /\ pc = "nbr" /\ ret = "none" /\ bcleared /\ q # <<>>
  /\ LET x == q[Len(q)]
     IN  blossom[x] /\ x # curbase /\ base[x] = curbase /\ used[x]
  /\ \E z \in Vertices(n) : ~blossom[base[z]] /\ base[z] # curbase /\ ~used[z]

NoDup(s) == \A i, l \in 1 .. Len(s) : s[i] = s[l] => i = l

\* the tree-extension branch is about to append match[u] (lines 88-89)
ExtendReady ==
  HasNbr /\ ~SkipCond /\ ~BlossomCond /\ ExtendCond /\ match[u] # -1

\* C15: within one find_path call no vertex enters the queue twice (the
\* vertices popped so far followed by the queue never repeat a vertex), so at
\* most n vertices are popped; the tree extension appends match[u] only when
\* that partner is not yet visited.
C15_EnqueuedOnce ==
  /\ NoDup(deq \o q)
  /\ Len(deq) <= n
  /\ (ExtendReady => ~used[match[u]] /\ \A i \in 1 .. Len(deq \o q) : (deq \o q)[i] # match[u])

\* a tree extension is about to append after a contraction in the same call
C15_Witness == ExtendReady /\ ret = "none" /\ bcleared /\ Len(deq) >= 2 /\ q # <<>>

\* C16: the sentinel -1 is never used as a list index. The first walk of lca
\* stops at the unmatched root; the second walk steps over p[match[b]] only
\* from a matched base and obtains a vertex; in mark_path match[v] and
\* p[match[v]] are vertices whenever they are used; in the flip walk
\* prev = p[curr] is a vertex, so match[-1] is neither read nor written.
C16_NoSentinelIndex ==
  /\ ~negidx
  /\ pc = "lca1" => a # -1
  /\ pc = "lca2" =>
       /\ a = root /\ match[a] = -1
       /\ b # -1
       /\ ~used_path[base[b]] => match[base[b]] # -1 /\ Up(base[b]) # -1
  /\ InMark =>
       /\ mv # -1
       /\ base[mv] # curbase =>
            match[mv] # -1 /\ Reparent(p, mv, mx)[match[mv]] # -1
  /\ (pc = "flip" /\ curr # -1) => Prev(curr) # -1

\* the flip walk stands on a vertex whose parent was written by mark_path,
\* after lca and both mark_path walks have run in this call
C16_Witness ==
  /\ pc = "flip" /\ curr # -1 /\ curr \in pmark /\ bcleared
  /\ Prev(curr) # -1 /\ ~negidx

====
